---- MODULE Spec2Model ----
(***************************************************************************)
(* A model of the article generator of copy-ai-clone: the list parser      *)
(* response_to_list (src/api.py), the script that chains the generation    *)
(* calls and writes the article (src/api.py, the __main__ block), and the  *)
(* client that invokes the deployed package (src/ping.py).                 *)
(*                                                                         *)
(* A Python str is a sequence of one-character strings; a list of str is a *)
(* sequence of such sequences.                                             *)
(***************************************************************************)
EXTENDS Integers, Sequences, FiniteSets, TLC

VARIABLES
  response,       \* response_to_list: the argument
  parsed,         \* response_to_list: the returned list
  ppc,            \* response_to_list: "idle", "call" (not yet applied), "done"
  pc,             \* __main__: the position of the script
  headers_list,   \* __main__: headers_list
  header_talking_points_map,  \* __main__: dict, as a sequence of [key, value]
  header_paragraphs_map,      \* __main__: dict, as a sequence of [key, value]
  intro,          \* __main__: intro
  conclusion,     \* __main__: conclusion, or Unbound before line 153 has run
  hi,             \* __main__: index into headers_list of the loop of line 138
  pi,             \* __main__: index into the talking points, the loop of line 146
  paragraphs,     \* __main__: paragraphs
  calls,          \* the generation calls issued so far, in order (history)
  file_state,     \* the output file: "unopened", "open", "closed"
  file_text,      \* the output file's content
  written,        \* how many items of header_paragraphs_map line 156 has written
  ping_pc,        \* ping.py: "start", "done"
  ping_resp       \* ping.py: the outcome of pkg.invoke

parserVars == <<response, parsed, ppc>>
mainVars == <<pc, headers_list, header_talking_points_map, header_paragraphs_map,
              intro, conclusion, hi, pi, paragraphs, calls, file_state,
              file_text, written>>
pingVars == <<ping_pc, ping_resp>>
vars == <<parserVars, mainVars, pingVars>>

----------------------------------------------------------------------------
(* Characters.                                                             *)

\* str.isdigit on the ASCII range
Digits == {"0", "1", "2", "3", "4", "5", "6", "7", "8", "9"}

\* string.punctuation, but for the grave accent, which a TLA+ string cannot
\* hold; no input of the model contains it
Punctuation ==
  {"!", "\"", "#", "$", "%", "&", "'", "(", ")", "*", "+", ",", "-", ".", "/",
   ":", ";", "<", "=", ">", "?", "@", "[", "\\", "]", "^", "_", "{", "|", "}",
   "~"}

\* the characters str.strip() removes (ASCII)
Whitespace == {" ", "\t", "\n", "\r", "\f"}

RECURSIVE lstrip(_)
lstrip(s) ==
  IF s # <<>> /\ Head(s) \in Whitespace THEN lstrip(Tail(s)) ELSE s

RECURSIVE rstrip(_)
rstrip(s) ==
  IF s # <<>> /\ s[Len(s)] \in Whitespace
    THEN rstrip(SubSeq(s, 1, Len(s) - 1))
    ELSE s

\* str.strip()
strip(s) == rstrip(lstrip(s))

----------------------------------------------------------------------------
(* response_to_list, src/api.py lines 99-113.                              *)

\* A variant of the loop body that keeps digits (tests only string.punctuation).
ScanCharKeepsDigits(st, char) ==
  LET item1 == IF char \notin Punctuation THEN Append(st.item, char) ELSE st.item
  IN  IF char = "\n" /\ strip(item1) # <<>>
        THEN [response_list |-> Append(st.response_list, strip(item1)),
              item |-> <<>>]
        ELSE [response_list |-> st.response_list, item |-> item1]

\* One iteration of `for char in response`, lines 103-109.
ScanChar(st, char) ==
  LET item1 == IF char \notin Digits /\ char \notin Punctuation
                 THEN Append(st.item, char)
                 ELSE st.item
  IN  IF char = "\n" /\ strip(item1) # <<>>
        THEN [response_list |-> Append(st.response_list, strip(item1)),
              item |-> <<>>]
        ELSE [response_list |-> st.response_list, item |-> item1]

\* The loop of line 102 over the first n characters, from lines 100-101.
RECURSIVE Scan(_, _)
Scan(resp, n) ==
  IF n = 0
    THEN [response_list |-> <<>>, item |-> <<>>]
    ELSE ScanChar(Scan(resp, n - 1), resp[n])

\* A variant of the last append that does not trim the remaining buffer.
FinishUntrimmed(st) ==
  IF st.item # <<>> THEN Append(st.response_list, st.item) ELSE st.response_list

\* Lines 110-113: the buffer left after the last character.
Finish(st) ==
  IF st.item # <<>>
    THEN Append(st.response_list, strip(st.item))
    ELSE st.response_list

response_to_list(resp) == Finish(Scan(resp, Len(resp)))

----------------------------------------------------------------------------
(* The inputs of the parser.                                               *)

MaxLen == 4

Alphabet == {"a", "b", "1", ".", " ", "\n"}

RECURSIVE StringsUpTo(_, _)
StringsUpTo(alphabet, n) ==
  IF n = 0
    THEN {<<>>}
    ELSE LET shorter == StringsUpTo(alphabet, n - 1)
         IN  shorter \cup {Append(s, c) : s \in shorter, c \in alphabet}

\* "1. Introduction\n2. History\n"
NumberedList ==
  <<"1", ".", " ", "I", "n", "t", "r", "o", "d", "u", "c", "t", "i", "o", "n",
    "\n", "2", ".", " ", "H", "i", "s", "t", "o", "r", "y", "\n">>

Introduction == <<"I", "n", "t", "r", "o", "d", "u", "c", "t", "i", "o", "n">>
History == <<"H", "i", "s", "t", "o", "r", "y">>

ParserInputs == StringsUpTo(Alphabet, MaxLen) \cup {NumberedList}

----------------------------------------------------------------------------
(* The parser applied to one input.                                        *)

ParserIdle == response = <<>> /\ parsed = <<>> /\ ppc = "idle"

\* response_to_list(response), lines 99-113
Parse ==
  /\ ppc = "call"
  /\ parsed' = response_to_list(response)
  /\ ppc' = "done"
  /\ UNCHANGED <<response, mainVars, pingVars>>

----------------------------------------------------------------------------
(* Strings and dicts of the script.                                        *)

\* line 125
title ==
  <<"A", " ", "G", "u", "i", "d", "e", " ", "t", "o", " ", "N", "a", "t", "u",
    "r", "a", "l", " ", "L", "a", "n", "g", "u", "a", "g", "e", " ", "P", "r",
    "o", "c", "e", "s", "s", "i", "n", "g">>

\* "informative", the tone of every call of the script
tone == <<"i", "n", "f", "o", "r", "m", "a", "t", "i", "v", "e">>

\* a name that no assignment has bound yet
Unbound == <<"<unbound>">>

\* sep.join(items): items is what Python iterates over
RECURSIVE Join(_, _)
Join(sep, items) ==
  IF items = <<>> THEN <<>>
  ELSE IF Len(items) = 1 THEN items[1]
  ELSE items[1] \o sep \o Join(sep, Tail(items))

\* Iterating over a str yields its characters, each a str of length one.
Iterate(s) == [i \in 1..Len(s) |-> <<s[i]>>]

\* k in d
DictHas(d, k) == \E i \in 1..Len(d) : d[i].key = k

\* d[k]
DictGet(d, k) == d[CHOOSE i \in 1..Len(d) : d[i].key = k].value

\* A variant of d[k] = v that adds a new item also when k is already a key.
DictSetAppends(d, k, v) == Append(d, [key |-> k, value |-> v])

\* d[k] = v: a key already present keeps its place in the insertion order
DictSet(d, k, v) ==
  IF DictHas(d, k)
    THEN [i \in 1..Len(d) |->
            IF d[i].key = k THEN [key |-> k, value |-> v] ELSE d[i]]
    ELSE Append(d, [key |-> k, value |-> v])

\* The prompt of generate_intro_paragraph, lines 79-80.
IntroPrompt(ttl, headers, tn) ==
  <<"G", "e", "n", "e", "r", "a", "t", "e", " ", "a", " ", "f", "o", "u", "r",
    " ", "s", "e", "n", "t", "e", "n", "c", "e", " ", "a", "r", "t", "i", "c",
    "l", "e", " ", "i", "n", "t", "r", "o", "d", "u", "c", "t", "i", "o", "n",
    " ", "p", "a", "r", "a", "g", "r", "a", "p", "h", " ", "w", "i", "t", "h",
    " ", "a", " ">>
  \o tn \o
  <<" ", "t", "o", "n", "e", " ", "\n", " ", " ", " ", " ", "f", "o", "r", " ",
    "a", "n", " ", "a", "r", "t", "i", "c", "l", "e", " ", "t", "i", "t", "l",
    "e", "d", " ", "\"">>
  \o ttl \o
  <<"\"", " ", "w", "i", "t", "h", " ", "t", "h", "e", " ", "h", "e", "a", "d",
    "e", "r", "s", " ">>
  \o Join(<<",", " ">>, headers)

\* The prompt of generate_conclusion_paragraph, lines 90-91.
ConclusionPrompt(ttl, intr, tn) ==
  <<"G", "e", "n", "e", "r", "a", "t", "e", " ", "a", " ", "f", "o", "u", "r",
    " ", "s", "e", "n", "t", "e", "n", "c", "e", " ", "s", "e", "c", "t", "i",
    "o", "n", " ", "c", "o", "n", "c", "l", "u", "s", "i", "o", "n", " ", "p",
    "a", "r", "a", "g", "r", "a", "p", "h", " ", "w", "i", "t", "h", " ", "a",
    " ">>
  \o tn \o
  <<" ", "t", "o", "n", "e", " ", "\n", " ", " ", " ", " ", "f", "o", "r", " ",
    "a", "n", " ", "a", "r", "t", "i", "c", "l", "e", " ", "t", "i", "t", "l",
    "e", "d", " ">>
  \o ttl \o
  <<" ", "w", "i", "t", "h", " ", "t", "h", "e", " ", "i", "n", "t", "r", "o",
    "d", "u", "c", "t", "i", "o", "n", " ", "p", "a", "r", "a", "g", "r", "a",
    "p", "h", ":">>
  \o intr

----------------------------------------------------------------------------
(* What the generation capability may return.                              *)

MaxOutlineLen == 4

HeaderAlphabet == {"A", "B", "\n"}

\* responses to generate_outline
OutlineResponses == StringsUpTo(HeaderAlphabet, MaxOutlineLen)

\* responses to generate_talking_points: no point, one point, two points
PointsResponses ==
  {<<>>, <<"1", ".", " ", "x", "\n">>, <<"x", "\n", "y">>}

\* responses of the paragraph plugin
IntroResponses == {<<"I">>}
ParagraphResponses == {<<"P">>, <<"Q">>}
ConclusionResponses == {<<"C">>, <<"D">>}

----------------------------------------------------------------------------
(* The script, src/api.py lines 116-159.                                   *)

\* The header of the current iteration of line 138.
header == headers_list[hi]

\* A variant that iterates over the talking points of the first header stored.
pointsOfFirstHeader == header_talking_points_map[1].value

\* header_talking_points_map[header], the list line 146 iterates over
points == DictGet(header_talking_points_map, header)

\* One entry of the history of calls: the endpoint, the iteration of line 138
\* it was issued in (0 outside the loop), its arguments, and its outcome.
Call(op, h, ttl, hs, txt) ==
  [op |-> op, hidx |-> h, title |-> ttl, headers |-> hs, text |-> txt,
   ret |-> <<>>, failed |-> FALSE]

Returned(call, r) == [call EXCEPT !.ret = r]
Raised(call) == [call EXCEPT !.failed = TRUE]

\* The generation call the script issues next, if it is at a call.
AtCall ==
  \/ pc \in {"outline", "intro", "conclusion"}
  \/ pc = "header" /\ hi <= Len(headers_list)
  \/ pc = "point" /\ pi <= Len(points)

PendingCall ==
  CASE pc = "outline" -> Call("generate_outline", 0, title, <<>>, <<>>)
    [] pc = "intro" ->
         Call("generate_intro_paragraph", 0, title, Iterate(title), <<>>)
    [] pc = "header" -> Call("generate_talking_points", hi, <<>>, <<>>, header)
    [] pc = "point" ->
         Call("generate_main_paragraph", hi, <<>>, <<>>, points[pi])
    [] pc = "conclusion" ->
         Call("generate_conclusion_paragraph", hi, title, <<>>, intro)

MainInit ==
  /\ pc = "outline"
  /\ headers_list = <<>>
  /\ header_talking_points_map = <<>>
  /\ header_paragraphs_map = <<>>
  /\ intro = Unbound
  /\ conclusion = Unbound
  /\ hi = 0
  /\ pi = 0
  /\ paragraphs = <<>>
  /\ calls = <<>>
  /\ file_state = "unopened"
  /\ file_text = <<>>
  /\ written = 0

MainIdle ==
  /\ pc = "idle"
  /\ headers_list = <<>>
  /\ header_talking_points_map = <<>>
  /\ header_paragraphs_map = <<>>
  /\ intro = Unbound
  /\ conclusion = Unbound
  /\ hi = 0
  /\ pi = 0
  /\ paragraphs = <<>>
  /\ calls = <<>>
  /\ file_state = "unopened"
  /\ file_text = <<>>
  /\ written = 0

\* lines 126-133: the outline call and its parse
GenerateOutline ==
  /\ pc = "outline"
  /\ \E r \in OutlineResponses :
       /\ calls' = Append(calls, Returned(PendingCall, r))
       /\ headers_list' = response_to_list(strip(r))
  /\ header_talking_points_map' = <<>>
  /\ pc' = "intro"
  /\ UNCHANGED <<header_paragraphs_map, intro, conclusion, hi, pi, paragraphs,
                 file_state, file_text, written, parserVars, pingVars>>

\* lines 134-136: the introduction call, then the loop of line 138 starts
GenerateIntro ==
  /\ pc = "intro"
  /\ \E r \in IntroResponses :
       /\ calls' = Append(calls, Returned(PendingCall, r))
       /\ intro' = r
  /\ header_paragraphs_map' = <<>>
  /\ hi' = 1
  /\ pc' = "header"
  /\ UNCHANGED <<headers_list, header_talking_points_map, conclusion, pi,
                 paragraphs, file_state, file_text, written, parserVars,
                 pingVars>>

\* A variant that issues no call for a header whose talking points are known.
GenerateTalkingPointsSkipsKnown ==
  /\ pc = "header"
  /\ hi <= Len(headers_list)
  /\ IF DictHas(header_talking_points_map, header)
       THEN UNCHANGED <<calls, header_talking_points_map>>
       ELSE \E r \in PointsResponses :
              /\ calls' = Append(calls, Returned(PendingCall, r))
              /\ header_talking_points_map' =
                   DictSet(header_talking_points_map, header,
                           response_to_list(r))
  /\ paragraphs' = <<>>
  /\ pi' = 1
  /\ pc' = "point"
  /\ UNCHANGED <<headers_list, header_paragraphs_map, intro, conclusion, hi,
                 file_state, file_text, written, parserVars, pingVars>>

\* lines 138-145: the talking-points call of the next header and its parse
GenerateTalkingPoints ==
  /\ pc = "header"
  /\ hi <= Len(headers_list)
  /\ \E r \in PointsResponses :
       /\ calls' = Append(calls, Returned(PendingCall, r))
       /\ header_talking_points_map' =
            DictSet(header_talking_points_map, header, response_to_list(r))
  /\ paragraphs' = <<>>
  /\ pi' = 1
  /\ pc' = "point"
  /\ UNCHANGED <<headers_list, header_paragraphs_map, intro, conclusion, hi,
                 file_state, file_text, written, parserVars, pingVars>>

\* lines 146-150: the paragraph call of the next talking point
GenerateMainParagraph ==
  /\ pc = "point"
  /\ pi <= Len(points)
  /\ \E pg \in ParagraphResponses :
       /\ calls' = Append(calls, Returned(PendingCall, pg))
       /\ paragraphs' = Append(paragraphs, pg)
  /\ pi' = pi + 1
  /\ UNCHANGED <<pc, headers_list, header_talking_points_map,
                 header_paragraphs_map, intro, conclusion, hi, file_state,
                 file_text, written, parserVars, pingVars>>

\* lines 151-152: the inner loop is over, the paragraphs are stored
StoreParagraphs ==
  /\ pc = "point"
  /\ pi > Len(points)
  /\ header_paragraphs_map' = DictSet(header_paragraphs_map, header, paragraphs)
  /\ pc' = "conclusion"
  /\ UNCHANGED <<headers_list, header_talking_points_map, intro, conclusion,
                 hi, pi, paragraphs, calls, file_state, file_text, written,
                 parserVars, pingVars>>

\* line 153, the last statement of the body of the loop of line 138
GenerateConclusion ==
  /\ pc = "conclusion"
  /\ \E r \in ConclusionResponses :
       /\ calls' = Append(calls, Returned(PendingCall, r))
       /\ conclusion' = r
  /\ hi' = hi + 1
  /\ pc' = "header"
  /\ UNCHANGED <<headers_list, header_talking_points_map,
                 header_paragraphs_map, intro, pi, paragraphs, file_state,
                 file_text, written, parserVars, pingVars>>

\* A variant in which the failed call is issued again.
GenerationFailureRetried ==
  /\ AtCall
  /\ ~ \E i \in 1..Len(calls) : calls[i].failed
  /\ calls' = Append(calls, Raised(PendingCall))
  /\ UNCHANGED <<pc, headers_list, header_talking_points_map,
                 header_paragraphs_map, intro, conclusion, hi, pi, paragraphs,
                 file_state, file_text, written, parserVars, pingVars>>

\* A generation call raises: nothing in lines 122-153 catches it, the script
\* ends with the exception.
GenerationFailure ==
  /\ AtCall
  /\ calls' = Append(calls, Raised(PendingCall))
  /\ pc' = "aborted"
  /\ UNCHANGED <<headers_list, header_talking_points_map,
                 header_paragraphs_map, intro, conclusion, hi, pi, paragraphs,
                 file_state, file_text, written, parserVars, pingVars>>

\* line 154: the loop of line 138 is over, the file is opened for writing
OpenFile ==
  /\ pc = "header"
  /\ hi > Len(headers_list)
  /\ file_state' = "open"
  /\ file_text' = <<>>
  /\ pc' = "write_intro"
  /\ UNCHANGED <<headers_list, header_talking_points_map,
                 header_paragraphs_map, intro, conclusion, hi, pi, paragraphs,
                 calls, written, parserVars, pingVars>>

\* line 155
WriteIntro ==
  /\ pc = "write_intro"
  /\ file_text' = file_text \o intro \o <<"\n">>
  /\ written' = 0
  /\ pc' = "write_sections"
  /\ UNCHANGED <<headers_list, header_talking_points_map,
                 header_paragraphs_map, intro, conclusion, hi, pi, paragraphs,
                 calls, file_state, parserVars, pingVars>>

\* lines 156-158: one item of header_paragraphs_map
WriteSection ==
  /\ pc = "write_sections"
  /\ written < Len(header_paragraphs_map)
  /\ LET it == header_paragraphs_map[written + 1]
     IN  file_text' =
           file_text \o it.key \o <<"\n">> \o Join(<<"\n">>, it.value)
  /\ written' = written + 1
  /\ UNCHANGED <<pc, headers_list, header_talking_points_map,
                 header_paragraphs_map, intro, conclusion, hi, pi, paragraphs,
                 calls, file_state, parserVars, pingVars>>

\* line 159, and the end of the with block of line 154
WriteConclusion ==
  /\ pc = "write_sections"
  /\ written = Len(header_paragraphs_map)
  /\ conclusion # Unbound
  /\ file_text' = file_text \o conclusion
  /\ file_state' = "closed"
  /\ pc' = "done"
  /\ UNCHANGED <<headers_list, header_talking_points_map,
                 header_paragraphs_map, intro, conclusion, hi, pi, paragraphs,
                 calls, written, parserVars, pingVars>>

\* line 159 when line 153 never ran: NameError; the with block closes the file
ConclusionNameError ==
  /\ pc = "write_sections"
  /\ written = Len(header_paragraphs_map)
  /\ conclusion = Unbound
  /\ file_state' = "closed"
  /\ pc' = "crashed"
  /\ UNCHANGED <<headers_list, header_talking_points_map,
                 header_paragraphs_map, intro, conclusion, hi, pi, paragraphs,
                 calls, file_text, written, parserVars, pingVars>>

----------------------------------------------------------------------------
(* The client, src/ping.py.                                                *)

\* the request paths PromptPackage exposes, the @post decorators of api.py
Endpoints ==
  {"generate_outline", "generate_talking_points", "generate_main_paragraph",
   "generate_intro_paragraph", "generate_conclusion_paragraph"}

\* the method ping.py invokes, line 11
PingMethod == "generate"

PingInit == ping_pc = "start" /\ ping_resp = "none"
PingIdle == ping_pc = "idle" /\ ping_resp = "none"

\* pkg.invoke("generate", ...), lines 10-15
PingInvoke ==
  /\ ping_pc = "start"
  /\ ping_resp' = IF PingMethod \in Endpoints THEN "article" ELSE "not_found"
  /\ ping_pc' = "done"
  /\ UNCHANGED <<parserVars, mainVars>>

----------------------------------------------------------------------------
(* Specifications.                                                         *)

\* The script and the client, each run once.
Init == ParserIdle /\ MainInit /\ PingInit

Next ==
  \/ GenerateOutline
  \/ GenerateIntro
  \/ GenerateTalkingPoints
  \/ GenerateMainParagraph
  \/ StoreParagraphs
  \/ GenerateConclusion
  \/ GenerationFailure
  \/ OpenFile
  \/ WriteIntro
  \/ WriteSection
  \/ WriteConclusion
  \/ ConclusionNameError
  \/ PingInvoke

Spec == Init /\ [][Next]_vars

\* response_to_list applied to one input of ParserInputs.
ParserInit ==
  /\ response \in ParserInputs
  /\ parsed = <<>>
  /\ ppc = "call"
  /\ MainIdle
  /\ PingIdle

ParserNext == Parse

ParserSpec == ParserInit /\ [][ParserNext]_vars

----------------------------------------------------------------------------
(* Reference definitions the properties are stated with.                   *)

\* s without its digits and punctuation characters, the rest in order
Kept(s) == SelectSeq(s, LAMBDA c : c \notin Digits /\ c \notin Punctuation)

HasNewline(s) == \E i \in 1..Len(s) : s[i] = "\n"

\* the lines of s: the pieces between its newlines
RECURSIVE SplitLines(_)
SplitLines(s) ==
  IF ~ HasNewline(s) THEN <<s>>
  ELSE LET n == CHOOSE i \in 1..Len(s) :
                  s[i] = "\n" /\ \A j \in 1..(i - 1) : s[j] # "\n"
       IN  <<SubSeq(s, 1, n - 1)>> \o SplitLines(SubSeq(s, n + 1, Len(s)))

\* each line without digits and punctuation, trimmed
TrimmedLines(s) ==
  LET ls == SplitLines(s) IN [i \in 1..Len(ls) |-> strip(Kept(ls[i]))]

NonEmpty(items) == SelectSeq(items, LAMBDA e : e # <<>>)

\* a occurs in b as a contiguous piece
IsSubstring(a, b) ==
  \E k \in 0..(Len(b) - Len(a)) : SubSeq(b, k + 1, k + Len(a)) = a

CallsOf(op) == SelectSeq(calls, LAMBDA c : c.op = op)

\* what the calls to endpoint op were about, in the order they were issued
TextsOf(op) == LET cs == CallsOf(op) IN [i \in 1..Len(cs) |-> cs[i].text]

\* the paragraphs returned in iteration k of the loop of line 138
ParagraphsOf(k) ==
  LET cs == SelectSeq(calls, LAMBDA c :
                c.op = "generate_main_paragraph" /\ c.hidx = k)
  IN  [i \in 1..Len(cs) |-> cs[i].ret]

RECURSIVE SumLen(_)
SumLen(lists) ==
  IF lists = <<>> THEN 0 ELSE Len(Head(lists)) + SumLen(Tail(lists))

\* the talking points parsed from every talking-points response
ParsedPoints ==
  LET cs == CallsOf("generate_talking_points")
  IN  [i \in 1..Len(cs) |-> response_to_list(cs[i].ret)]

\* Every generation call of the run has been issued and none has failed.
GenerationOver == pc \in {"write_intro", "write_sections", "done", "crashed"}

\* The run has ended without a failed generation call.
RunOver == pc \in {"done", "crashed"}

\* header k followed by its paragraphs, as lines 157-158 lay a section out
Section(k) == headers_list[k] \o <<"\n">> \o Join(<<"\n">>, ParagraphsOf(k))

RECURSIVE Sections(_)
Sections(k) == IF k = 0 THEN <<>> ELSE Sections(k - 1) \o Section(k)

LastRet(op) ==
  LET cs == CallsOf(op) IN IF cs = <<>> THEN <<>> ELSE cs[Len(cs)].ret

\* introduction, one section per parsed header, conclusion
ExpectedText ==
  LastRet("generate_intro_paragraph") \o <<"\n">>
    \o Sections(Len(headers_list))
    \o LastRet("generate_conclusion_paragraph")

ProseOps ==
  {"generate_main_paragraph", "generate_intro_paragraph",
   "generate_conclusion_paragraph"}

\* the talking-points calls that completed before call i was issued
PointsCallsBefore(i) ==
  Cardinality({j \in 1..(i - 1) :
     calls[j].op = "generate_talking_points" /\ ~ calls[j].failed})

----------------------------------------------------------------------------
(* Properties of response_to_list, under ParserSpec.                       *)

\* C1: every element response_to_list returns is non-empty after trimming,
\* whatever the input (blank lines, whitespace after the last newline).
C1_NoEmptyItem ==
  ppc = "done" => \A i \in 1..Len(parsed) : strip(parsed[i]) # <<>>

\* C2, as stated: an input without a newline whose trimmed content is
\* non-empty yields exactly one element, the trimmed input.
C2_SingleTrimmedInput ==
  (ppc = "done" /\ ~ HasNewline(response) /\ strip(response) # <<>>)
    => parsed = <<strip(response)>>

\* C2, amended: an input without a newline whose content without digits and
\* punctuation is non-empty after trimming yields exactly one element: the
\* input without its digits and punctuation characters, trimmed.
C2_SingleTrimmedKept ==
  (ppc = "done" /\ ~ HasNewline(response) /\ strip(Kept(response)) # <<>>)
    => parsed = <<strip(Kept(response))>>

C2_Witness ==
  /\ ppc = "done"
  /\ response = <<" ", "a", "1", "b">>
  /\ parsed = << <<"a", "b">> >>

\* C3: no returned element holds a digit or a punctuation character, the
\* non-empty elements are the lines of the input, in order, each without its
\* digits and punctuation and trimmed, and the numbered list "1. Introduction",
\* "2. History" yields exactly Introduction, History.
C3_MarkersDropped ==
  ppc = "done" =>
    /\ \A i \in 1..Len(parsed) : \A j \in 1..Len(parsed[i]) :
         parsed[i][j] \notin Digits /\ parsed[i][j] \notin Punctuation
    /\ NonEmpty(parsed) = NonEmpty(TrimmedLines(response))
    /\ response = NumberedList => parsed = <<Introduction, History>>

C3_Witness ==
  /\ ppc = "done"
  /\ response = NumberedList
  /\ parsed = <<Introduction, History>>

----------------------------------------------------------------------------
(* Properties of the script and of the client, under Spec.                 *)

\* C4: once every generation call of a run has succeeded, there has been
\* one paragraph call per parsed talking point, exactly one introduction call
\* and exactly one conclusion call, whatever the number of parsed headers.
C4_ProseCallCounts ==
  GenerationOver =>
    /\ Len(CallsOf("generate_main_paragraph")) = SumLen(ParsedPoints)
    /\ Len(CallsOf("generate_intro_paragraph")) = 1
    /\ Len(CallsOf("generate_conclusion_paragraph")) = 1

\* C5: a run whose generation calls all succeed ends with the file holding
\* the introduction, one section per parsed header in header order (the
\* header, then the paragraphs generated for its talking points), then the
\* conclusion.
C5_OutputText ==
  RunOver => pc = "done" /\ file_text = ExpectedText

\* C6: a failed generation call is the last call of the run (it is not
\* retried and nothing is called after it), the run is aborted, and the output
\* file has been neither opened nor written.
C6_FailureIsFatal ==
  \A i \in 1..Len(calls) :
    calls[i].failed =>
      /\ i = Len(calls)
      /\ pc = "aborted"
      /\ file_state = "unopened"
      /\ file_text = <<>>

C6_Witness ==
  /\ pc = "aborted"
  /\ Len(headers_list) = 2
  /\ calls[Len(calls)].failed
  /\ calls[Len(calls)].op = "generate_conclusion_paragraph"
  /\ calls[Len(calls)].hidx = 2

\* C7: the first generation call is the outline call and there is exactly
\* one; the talking-points calls issued so far are for the first parsed
\* headers, in parsed order, and once the generation is over there has been
\* one per parsed header, K in all, a repeated header being called again.
C7_OutlineThenTalkingPoints ==
  /\ calls # <<>> =>
       /\ calls[1].op = "generate_outline"
       /\ Len(CallsOf("generate_outline")) = 1
  /\ LET asked == TextsOf("generate_talking_points")
     IN  /\ Len(asked) <= Len(headers_list)
         /\ asked = SubSeq(headers_list, 1, Len(asked))
         /\ GenerationOver => asked = headers_list

C7_Witness ==
  /\ pc = "done"
  /\ Len(headers_list) = 2
  /\ headers_list[1] = headers_list[2]
  /\ Len(CallsOf("generate_talking_points")) = 2

\* C8, as stated: when a paragraph, introduction or conclusion call is
\* issued, the talking-points calls of all parsed headers have completed.
C8_StagesSequential ==
  \A i \in 1..Len(calls) :
    calls[i].op \in ProseOps => PointsCallsBefore(i) = Len(headers_list)

\* C8, amended: the introduction call directly follows the outline call, the
\* calls of one header's iteration precede those of the next header's, and
\* within an iteration the talking-points call has completed before any
\* paragraph call, each for one of the talking points parsed from its
\* response, and before the conclusion call.
C8_PointsBeforeParagraphs ==
  \A i \in 1..Len(calls) :
    /\ calls[i].op = "generate_intro_paragraph" => i = 2
    /\ \A j \in 1..(i - 1) : calls[j].hidx <= calls[i].hidx
    /\ calls[i].op \in {"generate_main_paragraph",
                        "generate_conclusion_paragraph"} =>
         \E j \in 1..(i - 1) :
           /\ calls[j].op = "generate_talking_points"
           /\ calls[j].hidx = calls[i].hidx
           /\ ~ calls[j].failed
           /\ calls[i].op = "generate_main_paragraph" =>
                \E n \in 1..Len(response_to_list(calls[j].ret)) :
                  response_to_list(calls[j].ret)[n] = calls[i].text

C8_Witness ==
  /\ pc = "done"
  /\ \E i \in 1..Len(calls) :
       calls[i].op = "generate_main_paragraph" /\ calls[i].hidx = 2

\* C9: every parsed header occurs verbatim in the prompt of the introduction
\* call, and every conclusion call is given the title and the text the
\* introduction call returned.
C9_IntroFromHeaders ==
  \A i \in 1..Len(calls) :
    /\ calls[i].op = "generate_intro_paragraph" =>
         \A k \in 1..Len(headers_list) :
           IsSubstring(headers_list[k],
                       IntroPrompt(calls[i].title, calls[i].headers, tone))
    /\ calls[i].op = "generate_conclusion_paragraph" =>
         /\ calls[i].title = title
         /\ calls[i].text = LastRet("generate_intro_paragraph")

\* C10: the method the client invokes is an operation the package defines,
\* and the invocation returns the article.
C10_GenerateDefined ==
  ping_pc = "done" => PingMethod \in Endpoints /\ ping_resp = "article"

====
